---- MODULE Spec2Model ----
(***************************************************************************)
(* State-machine model of src/src/components/CubeMenu.vue: the cube/net/   *)
(* menu sequencer, its pointer handlers, its render loop and the gsap      *)
(* animations it schedules.                                                *)
(*                                                                         *)
(* Units.  Lengths, scales and opacities are fixed-point hundredths        *)
(* (1.0 = 100), angles are whole degrees (Math.PI/2 = 90, the group's      *)
(* initial tilt -atan(sqrt 2) is rounded to -55), and animation time is    *)
(* counted in tenths of a second (duration 0.5 = 5).                       *)
(***************************************************************************)
EXTENDS Integers, Sequences, FiniteSets, TLC

(* ------------------------------------------------------------------ *)
(* Bounds of the model.                                                *)
(* ------------------------------------------------------------------ *)

\* Longest time between two ticks of the gsap ticker, in tenths of a second.
MaxDt == 2

\* Number of distinct edge meshes pointer rays are taken to cross.
MaxRayEdges == 1

(* ------------------------------------------------------------------ *)
(* Program constants.                                                  *)
(* ------------------------------------------------------------------ *)

cubeSize == 100
NumEdges == 12
BobAmplitude == 10
PulseAmplitude == 3
Opaque == 100
Transparent == 0

\* Durations and timeline positions, in tenths of a second.
UnfoldDuration == 10
UnfoldGroupDuration == 5
UnfoldDelay == 10
FoldAt == 0
FoldDuration == 5
ShrinkAt == 6
ShrinkDuration == 5
MenuAt == 12
MenuDuration == 5
MenuScale == 50
MenuAnchorX == -250
MenuAnchorY == 150

Min(a, b) == IF a < b THEN a ELSE b

\* F applied to the value of x: x is evaluated once, whatever F does with it.
With(x, F(_)) == CHOOSE y \in {F(v) : v \in {x}} : TRUE

(* ------------------------------------------------------------------ *)
(* Scene objects.                                                      *)
(* ------------------------------------------------------------------ *)

\* type CubeState
CubeState == {"idle", "net", "transitioning", "menu"}

\* The six entries of `faces`, in the order init() pushes them.
FaceOrder == <<"front", "right", "left", "top", "bottom", "back">>
Faces == {FaceOrder[i] : i \in 1..Len(FaceOrder)}

\* The children of edgeGroup, in the order of edgesData.
EdgeOrder == <<"edge0", "edge1", "edge2", "edge3", "edge4", "edge5",
               "edge6", "edge7", "edge8", "edge9", "edge10", "edge11">>
Edges == {EdgeOrder[i] : i \in 1..NumEdges}

\* Every mesh under cubeGroup (intersectObjects(cubeGroup.children, true)).
Meshes == Faces \cup Edges

\* Mutant: createEdge without `userData.isEdge = true`.
IsEdgeUnmarked(mesh) == FALSE

\* createEdge sets userData.isEdge on edge meshes only; on a face mesh the
\* field is undefined, which the test in onCanvasClick reads as false.
IsEdge(mesh) == mesh \in Edges

\* The six entries init() pushes onto `faces`: the cube, net and menu
\* placement of each face (the cube placement a clone of the mesh's own).
InitialFaces ==
  [f \in Faces |->
    CASE f = "front" ->
           [cubePosition |-> <<0, 0, cubeSize \div 2>>, cubeRotation |-> <<0, 0, 0>>,
            netPosition |-> <<-50, 0, 0>>,  netRotation |-> <<0, 0, 0>>,
            menuPosition |-> <<0, 150, 0>>, menuRotation |-> <<0, 0, 0>>]
      [] f = "right" ->
           [cubePosition |-> <<cubeSize \div 2, 0, 0>>, cubeRotation |-> <<0, 90, 0>>,
            netPosition |-> <<50, 0, 0>>,   netRotation |-> <<0, 0, 0>>,
            menuPosition |-> <<0, -50, 0>>, menuRotation |-> <<0, 0, 0>>]
      [] f = "left" ->
           [cubePosition |-> <<-(cubeSize \div 2), 0, 0>>, cubeRotation |-> <<0, -90, 0>>,
            netPosition |-> <<-150, 0, 0>>, netRotation |-> <<0, 0, 0>>,
            menuPosition |-> <<0, 50, 0>>,  menuRotation |-> <<0, 0, 0>>]
      [] f = "top" ->
           [cubePosition |-> <<0, cubeSize \div 2, 0>>, cubeRotation |-> <<-90, 0, 0>>,
            netPosition |-> <<-50, 100, 0>>, netRotation |-> <<0, 0, 0>>,
            menuPosition |-> <<0, 250, 0>>,  menuRotation |-> <<0, 0, 0>>]
      [] f = "bottom" ->
           [cubePosition |-> <<0, -(cubeSize \div 2), 0>>, cubeRotation |-> <<90, 0, 0>>,
            netPosition |-> <<-50, -100, 0>>, netRotation |-> <<0, 0, 0>>,
            menuPosition |-> <<0, -150, 0>>,  menuRotation |-> <<0, 0, 0>>]
      [] OTHER ->
           [cubePosition |-> <<0, 0, -(cubeSize \div 2)>>, cubeRotation |-> <<0, 180, 0>>,
            netPosition |-> <<150, 0, 0>>,   netRotation |-> <<0, 0, 0>>,
            menuPosition |-> <<0, -250, 0>>, menuRotation |-> <<0, 0, 0>>]]

\* The animated properties: <<object, property>>, each a vector of numbers.
GroupTargets == {<<"cubeGroup", "rotation">>, <<"cubeGroup", "position">>,
                 <<"cubeGroup", "scale">>}
FaceTargets == {<<f, p>> : f \in Faces, p \in {"position", "rotation"}}
EdgeTargets == {<<e, "opacity">> : e \in Edges}
Targets == GroupTargets \cup FaceTargets \cup EdgeTargets

\* The scene as init() leaves it.
InitialProps ==
  [t \in Targets |->
    IF t = <<"cubeGroup", "rotation">> THEN <<-55, 45, 0>>
    ELSE IF t = <<"cubeGroup", "position">> THEN <<0, 0, 0>>
    ELSE IF t = <<"cubeGroup", "scale">> THEN <<100, 100, 100>>
    ELSE IF t \in EdgeTargets THEN <<Opaque>>
    ELSE IF t[2] = "position" THEN InitialFaces[t[1]].cubePosition
    ELSE InitialFaces[t[1]].cubeRotation]

(* ------------------------------------------------------------------ *)
(* gsap: tweens, the global ticker, delayed calls and timelines.       *)
(* ------------------------------------------------------------------ *)

\* ease "power2.inOut" at progress k/d, in thousandths.
EaseInOut(k, d) ==
  IF 2 * k < d THEN (4000 * k * k * k) \div (d * d * d)
  ELSE 1000 - (4000 * (d - k) * (d - k) * (d - k)) \div (d * d * d)

\* The value a tween writes at local time k of d: its target once k reaches d.
Interp(from, to, k, d) ==
  IF k >= d THEN to ELSE from + ((to - from) * EaseInOut(k, d)) \div 1000

\* The gsap.to(target, {..., duration}) tweens one statement or one forEach
\* creates: same parent, same position `at`, same duration and ease.  `vars`
\* maps each target to the end values of its animated components; the start
\* values are read from the targets at the first render.
Tween(vars, dur, at) ==
  [vars |-> vars, dur |-> dur, at |-> at, time |-> 0, initted |-> FALSE,
   from |-> <<>>]

\* One render of tween tw at local time t over scene p.
RenderTween(tw, p, t) ==
  LET from == IF tw.initted THEN tw.from
              ELSE [tg \in DOMAIN tw.vars |->
                      [i \in DOMAIN tw.vars[tg] |-> p[tg][i]]]
      c(tg, i) == IF i \in DOMAIN tw.vars[tg]
                  THEN Interp(from[tg][i], tw.vars[tg][i], t, tw.dur)
                  ELSE p[tg][i]
      new(tg) == IF Len(p[tg]) = 1 THEN <<c(tg, 1)>>
                 ELSE <<c(tg, 1), c(tg, 2), c(tg, 3)>>
  IN [tween |-> [tw EXCEPT !.time = t, !.initted = TRUE, !.from = from],
      props |-> [tg \in DOMAIN p |->
                   IF tg \in DOMAIN tw.vars THEN new(tg) ELSE p[tg]]]

\* The ticker advancing the tweens of the global timeline by dt, in the order
\* they were created; a tween that reaches its duration is dropped.
RECURSIVE RenderRoot(_, _, _)
RenderRoot(tws, p, dt) ==
  IF tws = <<>> THEN [tweens |-> <<>>, props |-> p]
  ELSE With(RenderTween(Head(tws), p, Min(Head(tws).time + dt, Head(tws).dur)),
         LAMBDA r :
           With(RenderRoot(Tail(tws), r.props, dt),
             LAMBDA rest :
               [tweens |-> IF r.tween.time = r.tween.dur THEN rest.tweens
                           ELSE <<r.tween>> \o rest.tweens,
                props |-> rest.props]))

\* A timeline at time T rendering its child tweens in position order: a child
\* renders once T has reached its position; one that has reached its duration
\* never renders again and is dropped from the list.
RECURSIVE RenderChildren(_, _, _)
RenderChildren(children, p, T) ==
  IF children = <<>> THEN [tweens |-> <<>>, props |-> p]
  ELSE With(IF T >= Head(children).at
            THEN RenderTween(Head(children), p,
                             Min(T - Head(children).at, Head(children).dur))
            ELSE [tween |-> Head(children), props |-> p],
         LAMBDA r :
           With(RenderChildren(Tail(children), r.props, T),
             LAMBDA rest :
               [tweens |-> IF r.tween.initted /\ r.tween.time = r.tween.dur
                           THEN rest.tweens
                           ELSE <<r.tween>> \o rest.tweens,
                props |-> rest.props]))

\* setEdgeOpacity(value, duration): one gsap.to per child of edgeGroup.  A
\* zero-duration tween renders at once and is done; any other joins the
\* global timeline (overwrite is off: running tweens of the same material
\* are left running).
setEdgeOpacity(s, value, duration) ==
  IF duration = 0
  THEN [s EXCEPT !.props = [t \in DOMAIN s.props |->
                              IF t \in EdgeTargets THEN <<value>> ELSE s.props[t]]]
  ELSE [s EXCEPT !.rootTweens =
          Append(s.rootTweens,
                 Tween([t \in EdgeTargets |-> (1 :> value)], duration, 0))]

(* ------------------------------------------------------------------ *)
(* The component's functions, as maps of the program state s:          *)
(*   currentState, faces (the layout table), props (the scene),        *)
(*   rootTweens / delayedCalls / timelines (what gsap holds), the      *)
(*   resources of the component's life cycle, and pushes (the paths    *)
(*   handed to router.push by the running callback).                   *)
(* ------------------------------------------------------------------ *)

\* The tweens of one faces.forEach over the table `fs`: the mesh of every
\* entry to one layout, the end values read from the table at the call.
FaceTweens(fs, layoutPosition, layoutRotation, dur, at) ==
  Tween([t \in {<<f, p>> : f \in DOMAIN fs, p \in {"position", "rotation"}} |->
           IF t[2] = "position"
           THEN [k \in 1..3 |-> fs[t[1]][layoutPosition][k]]
           ELSE [k \in 1..3 |-> fs[t[1]][layoutRotation][k]]],
        dur, at)

\* Mutant: unfoldCubeNet without the tween of cubeGroup.position.
UnfoldTweensNoPosition(fs) ==
  << Tween((<<"cubeGroup", "rotation">> :> ((1 :> 0) @@ (2 :> 0))),
           UnfoldDuration, 0),
     Tween((<<"cubeGroup", "scale">> :> ((1 :> 100) @@ (2 :> 100) @@ (3 :> 100))),
           UnfoldGroupDuration, 0),
     FaceTweens(fs, "netPosition", "netRotation", UnfoldDuration, 0) >>

\* The gsap.to calls of unfoldCubeNet, before the edge fade.
UnfoldTweens(fs) ==
  << Tween((<<"cubeGroup", "rotation">> :> ((1 :> 0) @@ (2 :> 0))),
           UnfoldDuration, 0),
     Tween((<<"cubeGroup", "position">> :> (2 :> 0)), UnfoldGroupDuration, 0),
     Tween((<<"cubeGroup", "scale">> :> ((1 :> 100) @@ (2 :> 100) @@ (3 :> 100))),
           UnfoldGroupDuration, 0),
     FaceTweens(fs, "netPosition", "netRotation", UnfoldDuration, 0) >>

\* Mutant: the callback leaves the state as it is.
UnfoldCompleteKeepsState(s) == s

\* Mutant: the callback sets the wrong state.
UnfoldCompleteAsMenu(s) == [s EXCEPT !.currentState = "menu"]

\* The callback of gsap.delayedCall in unfoldCubeNet.
UnfoldComplete(s) == [s EXCEPT !.currentState = "net"]

\* Mutant: unfoldCubeNet without `currentState = 'transitioning'`.
unfoldCubeNetKeepsState(s) ==
  LET s1 == [s EXCEPT !.rootTweens = s.rootTweens \o UnfoldTweens(s.faces)]
      s2 == setEdgeOpacity(s1, Transparent, UnfoldDuration)
  IN [s2 EXCEPT !.delayedCalls =
        Append(s2.delayedCalls, [delay |-> UnfoldDelay, time |-> 0])]

\* function unfoldCubeNet()
unfoldCubeNet(s) ==
  LET s1 == [s EXCEPT !.currentState = "transitioning",
                      !.rootTweens = s.rootTweens \o UnfoldTweens(s.faces)]
      s2 == setEdgeOpacity(s1, Transparent, UnfoldDuration)
  IN [s2 EXCEPT !.delayedCalls =
        Append(s2.delayedCalls, [delay |-> UnfoldDelay, time |-> 0])]

\* Mutant: the shrink and move positioned at 0.4, before the fold has ended.
TimelineChildrenOverlapping(fs) ==
  << FaceTweens(fs, "cubePosition", "cubeRotation", FoldDuration, FoldAt),
     Tween((<<"cubeGroup", "scale">> :>
              ((1 :> MenuScale) @@ (2 :> MenuScale) @@ (3 :> MenuScale))),
           ShrinkDuration, 4),
     Tween((<<"cubeGroup", "position">> :>
              ((1 :> MenuAnchorX) @@ (2 :> MenuAnchorY) @@ (3 :> 0))),
           ShrinkDuration, 4),
     FaceTweens(fs, "menuPosition", "menuRotation", MenuDuration, MenuAt) >>

\* The tl.to(...) children of the menu timeline, in position order: the fold
\* to the cube layout, the group's shrink and move, the unfold to the menu.
TimelineChildren(fs) ==
  << FaceTweens(fs, "cubePosition", "cubeRotation", FoldDuration, FoldAt),
     Tween((<<"cubeGroup", "scale">> :>
              ((1 :> MenuScale) @@ (2 :> MenuScale) @@ (3 :> MenuScale))),
           ShrinkDuration, ShrinkAt),
     Tween((<<"cubeGroup", "position">> :>
              ((1 :> MenuAnchorX) @@ (2 :> MenuAnchorY) @@ (3 :> 0))),
           ShrinkDuration, ShrinkAt),
     FaceTweens(fs, "menuPosition", "menuRotation", MenuDuration, MenuAt) >>

\* The end of the timeline, where the final tl.call(...) is appended.
TimelineDuration == MenuAt + MenuDuration

\* The paths of the router's route table.
RouterPaths ==
  {"/", "/web", "/3d", "/fullstack", "/about", "/projects", "/contact"}

\* Mutant: the path built from the face's name instead of the switch.
RoutePathFromName(name) == "/" \o name

\* Mutant: two cases of the switch exchanged.
RoutePathSwapped(name) ==
  CASE name = "front" -> "/web"
    [] name = "right" -> "/fullstack"
    [] name = "left" -> "/3d"
    [] name = "top" -> "/about"
    [] name = "bottom" -> "/projects"
    [] name = "back" -> "/contact"
    [] OTHER -> "/"

\* The switch on selectedFace.name.
RoutePath(name) ==
  CASE name = "front" -> "/web"
    [] name = "right" -> "/3d"
    [] name = "left" -> "/fullstack"
    [] name = "top" -> "/about"
    [] name = "bottom" -> "/projects"
    [] name = "back" -> "/contact"
    [] OTHER -> "/"

\* tl.call(() => { setEdgeOpacity(1, 0); }, null, 0)
EdgesOpaque(s) == setEdgeOpacity(s, Opaque, 0)

\* Mutant: the fade ends at half opacity.
EdgesFadeToHalf(s) == setEdgeOpacity(s, 50, MenuDuration)

\* onStart of the empty tween at 1.2: setEdgeOpacity(0, 0.5)
EdgesFade(s) == setEdgeOpacity(s, Transparent, MenuDuration)

\* Mutant: the final call sets the state of the unfolded net.
NavigateAsNet(s, selectedFace) ==
  [s EXCEPT !.currentState = "net",
            !.pushes = Append(s.pushes, RoutePath(selectedFace))]

\* Mutant: the final call pushes the route without setting the state.
NavigateKeepsState(s, selectedFace) ==
  [s EXCEPT !.pushes = Append(s.pushes, RoutePath(selectedFace))]

\* The final tl.call: set the state and push the route of the selected face.
Navigate(s, selectedFace) ==
  [s EXCEPT !.currentState = "menu",
            !.pushes = Append(s.pushes, RoutePath(selectedFace))]

\* function transitionToMenuAndNavigate(selectedFace)
transitionToMenuAndNavigate(s, selectedFace) ==
  IF s.currentState # "net" /\ s.currentState # "menu" THEN s
  ELSE [s EXCEPT !.currentState = "transitioning",
                 !.timelines = Append(s.timelines,
                    [time |-> 0, selectedFace |-> selectedFace,
                     children |-> TimelineChildren(s.faces)])]

\* Mutant: onCanvasClick without the test of intersects.length, reading
\* `intersects[0].object` of an empty list: a TypeError.
onCanvasClickNoLengthTest(s, intersects) ==
  IF Len(intersects) = 0 THEN [s EXCEPT !.error = TRUE]
  ELSE LET clickedMesh == intersects[1]
       IN IF IsEdge(clickedMesh) THEN s
          ELSE IF s.currentState = "idle" THEN unfoldCubeNet(s)
          ELSE IF s.currentState = "net" \/ s.currentState = "menu"
               THEN IF \E f \in DOMAIN s.faces : f = clickedMesh
                    THEN transitionToMenuAndNavigate(s, clickedMesh)
                    ELSE s
          ELSE s

\* Mutant: onCanvasClick unfolding in every state but net and menu.
onCanvasClickNoIdleTest(s, intersects) ==
  IF Len(intersects) > 0
  THEN LET clickedMesh == intersects[1]
       IN IF IsEdge(clickedMesh) THEN s
          ELSE IF s.currentState = "net" \/ s.currentState = "menu"
               THEN IF \E f \in DOMAIN s.faces : f = clickedMesh
                    THEN transitionToMenuAndNavigate(s, clickedMesh)
                    ELSE s
          ELSE unfoldCubeNet(s)
  ELSE s

\* function onCanvasClick(event), given what the raycaster returns for the
\* event's coordinates: the intersected meshes, nearest first.
onCanvasClick(s, intersects) ==
  IF Len(intersects) > 0
  THEN LET clickedMesh == intersects[1]
       IN IF IsEdge(clickedMesh) THEN s
          ELSE IF s.currentState = "idle" THEN unfoldCubeNet(s)
          ELSE IF s.currentState = "net" \/ s.currentState = "menu"
               THEN IF \E f \in DOMAIN s.faces : f = clickedMesh
                    THEN transitionToMenuAndNavigate(s, clickedMesh)
                    ELSE s
          ELSE s
  ELSE s

\* function onCanvasTouch(event): a synthetic click at the first touch point.
onCanvasTouch(s, intersects) == onCanvasClick(s, intersects)

\* Mutant: animate without the test of currentState.
animateInEveryState(s, bob, pulse) ==
  [s EXCEPT !.props = [s.props EXCEPT
     ![<<"cubeGroup", "position">>] = <<@[1], bob, @[3]>>,
     ![<<"cubeGroup", "scale">>] = <<pulse, pulse, pulse>>],
            !.frameRequested = TRUE]

\* function animate(), with the two sines of Date.now() as inputs; it ends
\* by requesting the next frame.
animate(s, bob, pulse) ==
  IF s.currentState = "idle"
  THEN [s EXCEPT !.props = [s.props EXCEPT
          ![<<"cubeGroup", "position">>] = <<@[1], bob, @[3]>>,
          ![<<"cubeGroup", "scale">>] = <<pulse, pulse, pulse>>],
                 !.frameRequested = TRUE]
  ELSE [s EXCEPT !.frameRequested = TRUE]

\* function onWindowResize(): camera aspect and renderer size, nothing the
\* sequencer reads.
onWindowResize(s) == s

\* function init(), run with canvasRef.value as the framework has set it.
\* With a null canvas `new THREE.WebGLRenderer({canvas: null})` either throws
\* (rendererThrows) or builds a renderer on a canvas of its own; in the second
\* case init() goes on to `canvasRef.value!.addEventListener`, a TypeError on
\* null, after the scene is built and the resize listener is registered.
init(s, rendererThrows) ==
  IF s.canvasRef = "null" /\ rendererThrows
  THEN [s EXCEPT !.error = TRUE]
  ELSE LET s1 == [s EXCEPT !.renderer = "held",
                           !.props = InitialProps,
                           !.faces = InitialFaces,
                           !.listeners = @ \cup {"resize"}]
       IN IF s.canvasRef = "null"
          THEN [s1 EXCEPT !.error = TRUE]
          ELSE [s1 EXCEPT !.listeners = @ \cup {"click", "touchstart"}]

\* onMounted(() => { init(); animate(); }): an exception in init() leaves the
\* hook before animate().
onMounted(s, rendererThrows, bob, pulse) ==
  LET s1 == init(s, rendererThrows)
  IN IF s1.error THEN s1 ELSE animate(s1, bob, pulse)

\* onUnmounted(() => { ... }): the frame request is cancelled and the resize
\* listener removed; the click and touchstart listeners are removed when
\* canvasRef.value is still set.  The renderer is not disposed of and what
\* gsap holds is left running.
onUnmounted(s) ==
  [s EXCEPT !.frameRequested = FALSE,
            !.listeners = IF s.canvasRef # "null" THEN {}
                          ELSE @ \ {"resize"}]

(* ------------------------------------------------------------------ *)
(* One tick of the gsap ticker, dt after the previous one.             *)
(* ------------------------------------------------------------------ *)

\* Delayed calls: one whose delay has elapsed runs its callback and is done.
RECURSIVE RunDelayedCalls(_, _, _)
RunDelayedCalls(s, calls, dt) ==
  IF calls = <<>> THEN [s EXCEPT !.delayedCalls = <<>>]
  ELSE LET c == Head(calls)
           due == c.time + dt >= c.delay
       IN With(RunDelayedCalls(IF due THEN UnfoldComplete(s) ELSE s, Tail(calls), dt),
            LAMBDA rest :
              IF due THEN rest
              ELSE [rest EXCEPT !.delayedCalls =
                      <<[c EXCEPT !.time = c.time + dt]>> \o rest.delayedCalls])

\* One timeline: the call at 0 on its first render, then its tweens, then the
\* onStart of the empty tween once the playhead has passed its position, and
\* the final call when the playhead reaches the end.
RenderTimeline(s, tl, dt) ==
  LET T == Min(tl.time + dt, TimelineDuration)
  IN With(IF tl.time = 0 THEN EdgesOpaque(s) ELSE s,
       LAMBDA s1 :
         With(RenderChildren(tl.children, s1.props, T),
           LAMBDA r :
             With(IF tl.time <= MenuAt /\ T > MenuAt
                  THEN EdgesFade([s1 EXCEPT !.props = r.props])
                  ELSE [s1 EXCEPT !.props = r.props],
               LAMBDA s3 :
                 [state |-> IF T = TimelineDuration
                            THEN Navigate(s3, tl.selectedFace) ELSE s3,
                  timeline |-> [tl EXCEPT !.time = T, !.children = r.tweens],
                  done |-> T = TimelineDuration])))

RECURSIVE RunTimelines(_, _, _)
RunTimelines(s, tls, dt) ==
  IF tls = <<>> THEN [s EXCEPT !.timelines = <<>>]
  ELSE With(RenderTimeline(s, Head(tls), dt),
         LAMBDA r :
           With(RunTimelines(r.state, Tail(tls), dt),
             LAMBDA rest :
               IF r.done THEN rest
               ELSE [rest EXCEPT !.timelines = <<r.timeline>> \o rest.timelines]))

\* Mutant: init() storing each mesh's own position and rotation as its cube
\* layout (no clone()), so that every render of the mesh writes the table.
GsapTickFacesAliased(s, dt) ==
  With(RenderRoot(s.rootTweens, s.props, dt),
    LAMBDA r :
      With(RunDelayedCalls([s EXCEPT !.props = r.props, !.rootTweens = r.tweens],
                           s.delayedCalls, dt),
        LAMBDA s2 :
          With(RunTimelines(s2, s2.timelines, dt),
            LAMBDA s3 :
              [s3 EXCEPT !.faces =
                 [f \in DOMAIN s3.faces |->
                    [s3.faces[f] EXCEPT
                       !.cubePosition = s3.props[<<f, "position">>],
                       !.cubeRotation = s3.props[<<f, "rotation">>]]]])))

\* The ticker's callback: the global timeline renders its tweens, then its
\* delayed calls, then its timelines.
GsapTick(s, dt) ==
  With(RenderRoot(s.rootTweens, s.props, dt),
    LAMBDA r :
      With(RunDelayedCalls([s EXCEPT !.props = r.props, !.rootTweens = r.tweens],
                           s.delayedCalls, dt),
        LAMBDA s2 : RunTimelines(s2, s2.timelines, dt)))

(* ------------------------------------------------------------------ *)
(* The state machine.                                                  *)
(* ------------------------------------------------------------------ *)

VARIABLES
  phase,          \* the component's life cycle: setup, mounted, unmounted
  canvasRef,      \* canvasRef.value: the canvas element or null
  currentState,   \* let currentState: CubeState
  faces,          \* const faces: FaceData[], the layout table
  props,          \* the animated fields of cubeGroup, the face meshes, the edge materials
  renderer,       \* let renderer: undefined, or holding its WebGL context
  listeners,      \* the event listeners the component has registered
  frameRequested, \* a requestAnimationFrame(animate) is pending
  error,          \* a hook of the component has thrown
  rootTweens,     \* gsap.to tweens running on the global timeline
  delayedCalls,   \* pending gsap.delayedCall callbacks
  timelines,      \* running gsap.timeline()s with their selectedFace
  lastOp,         \* the callback that ran last
  lastEvent       \* what it ran on, in which state, and the paths it handed
                  \* to router.push

progVars == <<phase, canvasRef, currentState, faces, props, renderer, listeners,
              frameRequested, error, rootTweens, delayedCalls, timelines>>

vars == <<progVars, lastOp, lastEvent>>

\* The program state a callback starts from: nothing pushed yet.
State ==
  [phase |-> phase, canvasRef |-> canvasRef, currentState |-> currentState,
   faces |-> faces, props |-> props, renderer |-> renderer,
   listeners |-> listeners, frameRequested |-> frameRequested, error |-> error,
   rootTweens |-> rootTweens, delayedCalls |-> delayedCalls,
   timelines |-> timelines, pushes |-> <<>>]

\* What raycaster.intersectObjects returns, cut after its second entry (the
\* handler reads the first): distinct meshes, nearest first.
RayMeshes == Faces \cup {EdgeOrder[i] : i \in 1..MaxRayEdges}
Intersections ==
  {<<>>} \cup {<<m>> : m \in RayMeshes}
         \cup {q \in RayMeshes \X RayMeshes : q[1] # q[2]}

\* The nearest face of a list of intersections, "none" when it holds none.
NearestFace(intersects) ==
  IF \E i \in DOMAIN intersects : intersects[i] \in Faces
  THEN intersects[CHOOSE i \in DOMAIN intersects :
                    /\ intersects[i] \in Faces
                    /\ \A j \in DOMAIN intersects : intersects[j] \in Faces => i <= j]
  ELSE "none"

\* The program state becomes s.
Becomes(s) ==
  /\ phase' = s.phase
  /\ canvasRef' = s.canvasRef
  /\ currentState' = s.currentState
  /\ faces' = s.faces
  /\ props' = s.props
  /\ renderer' = s.renderer
  /\ listeners' = s.listeners
  /\ frameRequested' = s.frameRequested
  /\ error' = s.error
  /\ rootTweens' = s.rootTweens
  /\ delayedCalls' = s.delayedCalls
  /\ timelines' = s.timelines

\* The record of a callback run on `intersects`, ending in s.
Event(intersects, s) ==
  [hit |-> IF Len(intersects) > 0 THEN intersects[1] ELSE "none",
   face |-> NearestFace(intersects),
   state |-> currentState,
   pushes |-> s.pushes]

\* The sines of the idle oscillation at the moment of a frame.
BobSamples == {-BobAmplitude, 0, BobAmplitude}
PulseSamples == {100 - PulseAmplitude, 100, 100 + PulseAmplitude}

\* No scene object exists before init() has built the scene.
NoProps == [t \in {} |-> <<>>]

\* The state once <script setup> has run: nothing mounted yet.
Init ==
  /\ phase = "setup"
  /\ canvasRef = "null"
  /\ currentState = "idle"
  /\ faces = <<>>
  /\ props = NoProps
  /\ renderer = "undefined"
  /\ listeners = {}
  /\ frameRequested = FALSE
  /\ error = FALSE
  /\ rootTweens = <<>>
  /\ delayedCalls = <<>>
  /\ timelines = <<>>
  /\ lastOp = "setup"
  /\ lastEvent = [hit |-> "none", face |-> "none", state |-> "idle",
                  pushes |-> <<>>]

\* The framework mounts the component: it sets the template ref (to the canvas
\* element, or leaves it null when there is none) and runs the onMounted hook.
Mount ==
  /\ lastOp' = "mounted"
  /\ phase = "setup"
  /\ \E ref \in {"canvas", "null"}, rendererThrows \in BOOLEAN,
        bob \in BobSamples, pulse \in PulseSamples :
       \E s \in {onMounted([State EXCEPT !.phase = "mounted", !.canvasRef = ref],
                           rendererThrows, bob, pulse)} :
         /\ Becomes(s)
         /\ lastEvent' = Event(<<>>, s)

\* The framework unmounts the component: it runs the onUnmounted hook, with
\* the template ref still set or already cleared, and the canvas element
\* leaves the document.
Unmount ==
  /\ lastOp' = "unmounted"
  /\ phase = "mounted"
  /\ \E ref \in {canvasRef, "null"} :
       \E s \in {onUnmounted([State EXCEPT !.phase = "unmounted",
                                           !.canvasRef = ref])} :
         /\ Becomes([s EXCEPT !.canvasRef = "null"])
         /\ lastEvent' = Event(<<>>, s)

\* A resize of the window.
Resize ==
  /\ lastOp' = "resize"
  /\ "resize" \in listeners
  /\ \E s \in {onWindowResize(State)} :
       /\ Becomes(s)
       /\ lastEvent' = Event(<<>>, s)

\* A click on the canvas, which is in the document.
Click ==
  /\ lastOp' = "click"
  /\ "click" \in listeners /\ canvasRef = "canvas"
  /\ \E intersects \in Intersections :
       \E s \in {onCanvasClick(State, intersects)} :
         /\ Becomes(s)
         /\ lastEvent' = Event(intersects, s)

\* A touchstart on the canvas, which is in the document.
Touch ==
  /\ lastOp' = "touch"
  /\ "touchstart" \in listeners /\ canvasRef = "canvas"
  /\ \E intersects \in Intersections :
       \E s \in {onCanvasTouch(State, intersects)} :
         /\ Becomes(s)
         /\ lastEvent' = Event(intersects, s)

\* The frame the render loop has requested.
Frame ==
  /\ lastOp' = "animate"
  /\ frameRequested
  /\ \E bob \in BobSamples, pulse \in PulseSamples :
       \E s \in {animate(State, bob, pulse)} :
         /\ Becomes(s)
         /\ lastEvent' = Event(<<>>, s)

\* A tick of the gsap ticker, which belongs to the page, not to the component.
Tick ==
  /\ lastOp' = "tick"
  /\ \E dt \in 1..MaxDt :
       \E s \in {GsapTick(State, dt)} :
         /\ Becomes(s)
         /\ lastEvent' = Event(<<>>, s)

Next == Mount \/ Unmount \/ Resize \/ Click \/ Touch \/ Frame \/ Tick

Spec == Init /\ [][Next]_vars

\* Animations are pending: a tick has work to do.
Busy == rootTweens # <<>> \/ delayedCalls # <<>> \/ timelines # <<>>

\* The ticker runs on every display refresh while the page lives: weak
\* fairness of Tick, its enabledness written out as Busy (a tick with work
\* pending advances it, so Busy => ENABLED <<Tick>>_vars and WF_vars(Tick)
\* implies this condition).
FairSpec == Spec /\ ([]<>(~Busy) \/ []<><<Tick>>_vars)

(* ------------------------------------------------------------------ *)
(* Properties.                                                         *)
(* ------------------------------------------------------------------ *)

\* The step is a pointer callback (click or touch).
PointerStep == lastOp' \in {"click", "touch"}

\* Completion callbacks not yet run: the delayed call of unfoldCubeNet and
\* the final call of each running menu timeline.
Pending == Len(delayedCalls) + Len(timelines)

\* C1: a pointer event (click or touch) delivered while currentState is
\* "transitioning" changes nothing, whatever mesh it hits: not the state, not
\* the scene, not the running tweens, the pending delayed call or the running
\* timeline with its time and selected face, and it pushes no route.
C1_IgnoredWhileTransitioning ==
  [][ (PointerStep /\ currentState = "transitioning")
        => (UNCHANGED progVars /\ lastEvent'.pushes = <<>>) ]_vars

\* C1 witness: a face was hit while a menu transition was in flight.
C1_Witness ==
  /\ lastOp \in {"click", "touch"}
  /\ lastEvent.state = "transitioning"
  /\ lastEvent.hit \in Faces
  /\ timelines # <<>>

\* C2: at most one completion callback is pending, one is pending exactly
\* when currentState is "transitioning", and a transition starts only in a
\* pointer step taken with none pending.
C2_OneTransitionInFlight ==
  /\ [](Pending <= 1 /\ (Pending = 1 <=> currentState = "transitioning"))
  /\ [][ (Pending' > Pending \/ (currentState # "transitioning"
                                  /\ currentState' = "transitioning"))
           => (Pending = 0 /\ Pending' = 1 /\ PointerStep) ]_vars

\* C2 witness: a second transition is in flight after the first has completed.
C2_Witness ==
  /\ lastOp \in {"click", "touch"}
  /\ lastEvent.state = "menu"
  /\ currentState = "transitioning"
  /\ Pending = 1

\* C3 as stated: from the hit in idle until the state is "net", currentState
\* is never anything but "idle" or "net".
C3_OnlyIdleAndNet ==
  delayedCalls # <<>> => currentState \in {"idle", "net"}

\* C3 amended: in idle a hit whose nearest mesh is a face sets currentState to
\* "transitioning" and registers the delayed call; idle is left for no other
\* state; while the call is pending the state is "transitioning"; the call
\* runs in the first tick that brings its time to the delay, and sets "net".
C3_UnfoldToNet ==
  [][ /\ (PointerStep /\ currentState = "idle" /\ lastEvent'.hit \in Faces)
           => /\ currentState' = "transitioning"
              /\ delayedCalls' = <<[delay |-> UnfoldDelay, time |-> 0]>>
              /\ timelines' = <<>>
      /\ currentState = "idle" => currentState' \in {"idle", "transitioning"}
      /\ delayedCalls # <<>>
           => /\ currentState = "transitioning"
              /\ currentState' \in {"transitioning", "net"}
              /\ currentState' = "net" <=> delayedCalls' = <<>>
              /\ delayedCalls' # <<>> => delayedCalls'[1].time < UnfoldDelay
              /\ delayedCalls' = <<>>
                   => /\ lastOp' = "tick"
                      /\ delayedCalls[1].time + MaxDt >= UnfoldDelay ]_vars

\* C3 witness: the delayed call has just run and the state is "net".
C3_Witness ==
  /\ currentState = "net"
  /\ lastOp = "tick"
  /\ lastEvent.state = "transitioning"

\* The face-to-path table C4 states.
ExpectedPath ==
  [f \in Faces |->
    CASE f = "front" -> "/web"
      [] f = "right" -> "/3d"
      [] f = "left" -> "/fullstack"
      [] f = "top" -> "/about"
      [] f = "bottom" -> "/projects"
      [] OTHER -> "/contact"]

\* C4: in net or menu a pointer hit whose nearest mesh is face f starts the
\* one timeline, with f as its selected face; the timeline keeps that face,
\* and the step that ends it sets currentState to "menu" and pushes exactly
\* the path the table gives for f; distinct faces have distinct paths.
C4_FaceHitPushesItsRoute ==
  /\ [](\A f, g \in Faces : f # g => RoutePath(f) # RoutePath(g))
  /\ [][ /\ (PointerStep /\ currentState \in {"net", "menu"}
                         /\ lastEvent'.hit \in Faces)
              => /\ currentState' = "transitioning"
                 /\ Len(timelines') = 1
                 /\ timelines'[1].selectedFace = lastEvent'.hit
                 /\ timelines'[1].time = 0
         /\ (timelines # <<>> /\ timelines' # <<>>)
              => timelines'[1].selectedFace = timelines[1].selectedFace
         /\ (timelines # <<>> /\ timelines' = <<>>)
              => /\ currentState' = "menu"
                 /\ lastEvent'.pushes = <<ExpectedPath[timelines[1].selectedFace]>> ]_vars

\* C4 witness: the transition a hit on `back` started has ended in menu with
\* a push of /contact.
C4_Witness ==
  /\ currentState = "menu"
  /\ lastOp = "tick"
  /\ lastEvent.state = "transitioning"
  /\ lastEvent.pushes = <<"/contact">>

\* A pointer step that selects a face: the nearest mesh is a face and the
\* state is net or menu.
Accepted ==
  PointerStep /\ currentState \in {"net", "menu"} /\ lastEvent'.hit \in Faces

\* C5: a step pushes a route exactly when it takes currentState from
\* "transitioning" to "menu"; it is then a tick ending the one running
\* timeline, and it pushes once, the path of that timeline's selected face,
\* which is the face whose hit started it.  The running timelines grow by one
\* per accepted selection and shrink by one per push, so pushes and accepted
\* selections pair off: no push comes from the unfold, from an ignored event
\* or while the state stays "transitioning".
C5_PushOnlyOnMenuCompletion ==
  [][ /\ lastEvent'.pushes # <<>>
           <=> (currentState = "transitioning" /\ currentState' = "menu")
      /\ lastEvent'.pushes # <<>>
           => /\ lastOp' = "tick"
              /\ Len(timelines) = 1 /\ timelines' = <<>>
              /\ lastEvent'.pushes = <<RoutePath(timelines[1].selectedFace)>>
      /\ Len(timelines') - Len(timelines)
           = (IF Accepted THEN 1 ELSE 0) - Len(lastEvent'.pushes)
      /\ Accepted => timelines'[Len(timelines')].selectedFace = lastEvent'.hit
      /\ (timelines # <<>> /\ timelines' # <<>>)
           => timelines'[1].selectedFace = timelines[1].selectedFace ]_vars

\* C5 witness: the tick that completed a menu transition pushed one route.
C5_Witness ==
  /\ Len(lastEvent.pushes) = 1
  /\ lastEvent.state = "transitioning"
  /\ currentState = "menu"
  /\ timelines = <<>>

\* C6 as stated: a pointer event whose ray intersects at least one face is
\* handled as a hit on the nearest intersected face, also behind an edge.
C6_NearestFaceIsHit ==
  [][ (PointerStep /\ lastEvent'.face \in Faces)
        => LET s == onCanvasClick(State, <<lastEvent'.face>>)
           IN /\ currentState' = s.currentState
              /\ delayedCalls' = s.delayedCalls
              /\ timelines' = s.timelines ]_vars

\* C7: a pointer event whose nearest mesh is an edge changes nothing and
\* pushes nothing, in whichever state it arrives.
C7_EdgeHitIsNoOp ==
  [][ (PointerStep /\ lastEvent'.hit \in Edges)
        => (UNCHANGED progVars /\ lastEvent'.pushes = <<>>) ]_vars

\* C7 witness: an edge in front of a face was hit in the net state.
C7_Witness ==
  /\ lastOp \in {"click", "touch"}
  /\ lastEvent.hit \in Edges
  /\ lastEvent.face \in Faces
  /\ lastEvent.state = "net"

\* C8: under fair ticking, "transitioning" always leads to "net" or "menu".
C8_TransitioningEnds ==
  (currentState = "transitioning") ~> (currentState \in {"net", "menu"})

\* C8 witness: a face was hit while the state was "transitioning".
C8_Witness ==
  /\ currentState = "transitioning"
  /\ lastOp \in {"click", "touch"}
  /\ lastEvent.hit \in Faces
  /\ lastEvent.state = "transitioning"
  /\ delayedCalls # <<>>

\* C9: a frame of the render loop run while currentState is not "idle"
\* writes nothing: the group's position and scale, and the rest of the
\* program state, are as before.
C9_OscillationOnlyInIdle ==
  [][ (lastOp' = "animate" /\ currentState # "idle")
        => /\ props'[<<"cubeGroup", "position">>] = props[<<"cubeGroup", "position">>]
           /\ props'[<<"cubeGroup", "scale">>] = props[<<"cubeGroup", "scale">>]
           /\ UNCHANGED progVars ]_vars

\* C9 witness: a frame ran during the menu timeline's shrink, with the group's
\* scale between its end values.
C9_Witness ==
  /\ lastOp = "animate"
  /\ lastEvent.state = "transitioning"
  /\ timelines # <<>>
  /\ props[<<"cubeGroup", "scale">>][1] \notin {100, MenuScale}

\* An edge fade started by setEdgeOpacity is still running.
EdgeFadeRunning ==
  \E i \in 1..Len(rootTweens) : DOMAIN rootTweens[i].vars = EdgeTargets

\* C10 as stated: once a menu transition has completed and its edge fade has
\* finished, every edge has opacity 0.5.
C10_EdgesHalfOpaqueInMenu ==
  (currentState = "menu" /\ ~EdgeFadeRunning)
    => \A e \in Edges : props[<<e, "opacity">>] = <<50>>

\* C10 amended: once a transition has completed and its edge fade has
\* finished, every edge has opacity 0, in menu as in net.
C10_EdgesTransparentAfterTransition ==
  (currentState \in {"menu", "net"} /\ ~EdgeFadeRunning)
    => \A e \in Edges : props[<<e, "opacity">>] = <<Transparent>>

\* C10 witness: in menu, the fade of the completed transition has finished.
C10_Witness ==
  /\ currentState = "menu"
  /\ ~EdgeFadeRunning
  /\ lastOp = "tick"
  /\ lastEvent.state = "menu"

\* C11 as stated: once onUnmounted has run, the renderer's graphics context,
\* the resize, click and touchstart listeners and the requested frame are all
\* released.
C11_ReleasedOnUnmount ==
  phase = "unmounted"
    => /\ renderer # "held"
       /\ listeners = {}
       /\ ~frameRequested

\* C12: a pointer event whose ray intersects no mesh changes nothing (state,
\* pending transition, transforms, opacities), pushes nothing and raises no
\* error, in whichever state it arrives.
C12_MissIsNoOp ==
  [][ (PointerStep /\ lastEvent'.hit = "none")
        => (UNCHANGED progVars /\ ~error' /\ lastEvent'.pushes = <<>>) ]_vars

\* C12 witness: a ray that met no mesh, while a menu transition was in flight.
C12_Witness ==
  /\ lastOp \in {"click", "touch"}
  /\ lastEvent.hit = "none"
  /\ lastEvent.state = "transitioning"
  /\ timelines # <<>>

\* C13 as stated: mounted with a null canvas reference, the component raises
\* no error and stays in its initial state, with no listener registered.
C13_NullCanvasIsSilent ==
  (lastOp = "mounted" /\ canvasRef = "null")
    => /\ ~error
       /\ currentState = "idle"
       /\ listeners = {}

\* C14: once init() has filled it, the layout table holds exactly the six
\* faces with the cube, net and menu placements init() gave them, and no
\* step (pointer event, frame, tick, completion callback, resize, unmount)
\* changes it, while the meshes' own transforms are animated.
C14_LayoutTableConstant ==
  /\ []((phase # "setup" /\ ~error)
          => (DOMAIN faces = Faces /\ faces = InitialFaces))
  /\ [][renderer = "held" => faces' = faces]_vars

\* C14 witness: a tick has moved a face mesh away from each of its three
\* layouts.
C14_Witness ==
  /\ lastOp = "tick"
  /\ renderer = "held"
  /\ props[<<"top", "position">>]
       \notin {faces["top"].cubePosition, faces["top"].netPosition,
               faces["top"].menuPosition}

\* The seven paths C15 lists.
FixedPaths ==
  {"/", "/web", "/3d", "/fullstack", "/about", "/projects", "/contact"}

\* C15: every path a step hands to router.push is one of the seven fixed
\* paths, and one the router's route table defines.
C15_PushesFixedRoutes ==
  [][ \A i \in 1..Len(lastEvent'.pushes) :
        /\ lastEvent'.pushes[i] \in FixedPaths
        /\ lastEvent'.pushes[i] \in RouterPaths ]_vars

\* C15 witness: a step has pushed /3d.
C15_Witness ==
  lastEvent.pushes = <<"/3d">>

\* The tweens still in timeline tl (a tween that has reached its end is
\* dropped) of each phase: the fold of the faces to the cube layout, the
\* group's shrink and move, the unfold of the faces to the menu layout.
FoldPhase(tl) ==
  {i \in 1..Len(tl.children) :
     tl.children[i].vars = FaceTweens(faces, "cubePosition", "cubeRotation", 0, 0).vars}
ShrinkPhase(tl) ==
  {i \in 1..Len(tl.children) : DOMAIN tl.children[i].vars \subseteq GroupTargets}
MenuPhase(tl) ==
  {i \in 1..Len(tl.children) :
     tl.children[i].vars = FaceTweens(faces, "menuPosition", "menuRotation", 0, 0).vars}

\* A tween among `tweens` has rendered: their phase has begun.
Begun(tl, tweens) == \E i \in tweens : tl.children[i].initted

\* Every face mesh is at the given layout.
FacesAt(p, layoutPosition, layoutRotation) ==
  \A f \in DOMAIN faces :
    /\ p[<<f, "position">>] = faces[f][layoutPosition]
    /\ p[<<f, "rotation">>] = faces[f][layoutRotation]

\* The group is at the menu anchor, at menu scale.
GroupAtMenuAnchor(p) ==
  /\ p[<<"cubeGroup", "scale">>] = <<MenuScale, MenuScale, MenuScale>>
  /\ p[<<"cubeGroup", "position">>] = <<MenuAnchorX, MenuAnchorY, 0>>

\* C16: the first render of a menu timeline leaves every edge opaque; while a
\* fold tween (phase a) is unfinished neither the group's shrink and move
\* (phase b) nor the unfold to the menu layout (phase c) has begun; once phase
\* a has finished the faces are at their cube layout until phase c begins;
\* while a tween of phase b is unfinished phase c has not begun, and once
\* phase b has finished the group is at the menu anchor; and the step that
\* sets currentState to "menu" comes with phase c finished: every face at its
\* menu layout, the timeline gone.
C16_PhasesInOrder ==
  /\ [](\A k \in 1..Len(timelines) :
          LET tl == timelines[k]
          IN /\ FoldPhase(tl) # {}
                  => ~Begun(tl, ShrinkPhase(tl)) /\ ~Begun(tl, MenuPhase(tl))
             /\ (FoldPhase(tl) = {} /\ ~Begun(tl, MenuPhase(tl)))
                  => FacesAt(props, "cubePosition", "cubeRotation")
             /\ ShrinkPhase(tl) # {} => ~Begun(tl, MenuPhase(tl))
             /\ ShrinkPhase(tl) = {} => GroupAtMenuAnchor(props)
             /\ (FoldPhase(tl) # {} \/ ShrinkPhase(tl) # {}) => MenuPhase(tl) # {})
  /\ [][ /\ (timelines # <<>> /\ timelines[1].time = 0 /\ lastOp' = "tick")
              => \A e \in Edges : props'[<<e, "opacity">>] = <<Opaque>>
         /\ (currentState = "transitioning" /\ currentState' = "menu")
              => /\ MenuPhase(timelines[1]) # {}
                 /\ FacesAt(props', "menuPosition", "menuRotation")
                 /\ GroupAtMenuAnchor(props')
                 /\ timelines' = <<>> ]_vars

\* C16 witness: phase c is under way, phases a and b finished.
C16_Witness ==
  /\ Len(timelines) = 1
  /\ FoldPhase(timelines[1]) = {} /\ ShrinkPhase(timelines[1]) = {}
  /\ Begun(timelines[1], MenuPhase(timelines[1]))
  /\ ~FacesAt(props, "cubePosition", "cubeRotation")
  /\ ~FacesAt(props, "menuPosition", "menuRotation")

\* The group is neutral: no rotation, at the origin, at scale 1.
GroupNeutral(p) ==
  /\ p[<<"cubeGroup", "rotation">>] = <<0, 0, 0>>
  /\ p[<<"cubeGroup", "position">>] = <<0, 0, 0>>
  /\ p[<<"cubeGroup", "scale">>] = <<100, 100, 100>>

\* C17: in "net" every face is at its net layout and the group is neutral; in
\* "menu" every face is at its menu layout and the group at scale 0.5 and
\* position (-2.5, 1.5, 0); in "idle" every face is at its cube layout.
C17_StableStateLayout ==
  /\ currentState = "net"
       => FacesAt(props, "netPosition", "netRotation") /\ GroupNeutral(props)
  /\ currentState = "menu"
       => FacesAt(props, "menuPosition", "menuRotation") /\ GroupAtMenuAnchor(props)
  /\ currentState = "idle"
       => FacesAt(props, "cubePosition", "cubeRotation")

\* C17 witness: a tick has just completed a menu transition.
C17_Witness ==
  /\ currentState = "menu"
  /\ lastOp = "tick"
  /\ lastEvent.state = "transitioning"
  /\ faces = InitialFaces
  /\ rootTweens # <<>>

\* C18: currentState changes only idle -> transitioning (registering the
\* delayed call), transitioning -> net (that call pending, no timeline), net
\* or menu -> transitioning (starting a timeline), transitioning -> menu (a
\* timeline running, no delayed call); a delayed call is registered only in
\* idle and a timeline started only in net or menu; once currentState is not
\* "idle" it is never "idle" again, and once it is "menu" it is never "net"
\* again.
C18_OneWay ==
  /\ [][ /\ currentState' # currentState
              => \/ /\ currentState = "idle" /\ currentState' = "transitioning"
                    /\ delayedCalls' # <<>> /\ timelines' = <<>>
                 \/ /\ currentState = "transitioning" /\ currentState' = "net"
                    /\ delayedCalls # <<>> /\ timelines = <<>>
                 \/ /\ currentState \in {"net", "menu"}
                    /\ currentState' = "transitioning"
                    /\ timelines' # <<>> /\ delayedCalls' = <<>>
                 \/ /\ currentState = "transitioning" /\ currentState' = "menu"
                    /\ timelines # <<>> /\ delayedCalls = <<>>
         /\ Len(delayedCalls') > Len(delayedCalls) => currentState = "idle"
         /\ Len(timelines') > Len(timelines) => currentState \in {"net", "menu"}
         /\ currentState # "idle" => currentState' # "idle" ]_vars
  /\ [](currentState = "menu" => [](currentState # "net"))

\* C18 witness: a timeline started from "menu" by a hit on `top` is running.
C18_Witness ==
  /\ currentState = "transitioning"
  /\ lastOp \in {"click", "touch"}
  /\ lastEvent.state = "menu"
  /\ lastEvent.hit = "top"
  /\ Len(timelines) = 1 /\ timelines[1].selectedFace = "top"

\* C19 as stated: once the component is unmounted, no step changes
\* currentState or pushes a route.
C19_QuietAfterUnmount ==
  [][ phase = "unmounted"
        => (currentState' = currentState /\ lastEvent'.pushes = <<>>) ]_vars

====
